---- MODULE Spec2Model ----
(***************************************************************************)
(* Model of CKPE_Config.py: the comment-preserving INI parser              *)
(* (parse_comments, parse_ini_with_comments) and the editor's load / edit  *)
(* / save cycle (ConfigEditor.load_ini, refresh_ui, save_ini).             *)
(*                                                                         *)
(* A Python str is a sequence of characters; a list of lines is a sequence *)
(* of such sequences.  A character up to U+00FF is the one-character       *)
(* string that holds it ("k", "\t", the vertical tab written as itself);   *)
(* a character above U+00FF, which a string of this language cannot hold,  *)
(* is the string "U+" followed by its code point in at least four          *)
(* upper-case hexadecimal digits ("U+0661", "U+1D7CE").  Python's 0-based  *)
(* indices are kept in the data (line_number, start_idx); lines[i] is      *)
(* written lines[i + 1].                                                   *)
(***************************************************************************)
EXTENDS Integers, Sequences, FiniteSets, TLC

\* ------------------------------------------------------------------ str

\* The characters str.strip() and str.lstrip() remove, those str.isspace()
\* holds for: U+0009-000D, U+001C-001F, U+0020, U+0085, U+00A0, U+1680,
\* U+2000-200A, U+2028, U+2029, U+202F, U+205F, U+3000
Whitespace ==
    {"\t", "\n", "", "\f", "\r", "", "", "", "", " ", "", " ", "U+1680",
     "U+2000", "U+2001", "U+2002", "U+2003", "U+2004", "U+2005", "U+2006",
     "U+2007", "U+2008", "U+2009", "U+200A", "U+2028", "U+2029", "U+202F",
     "U+205F", "U+3000"}

\* The characters int() removes around its argument: the whitespace but
\* for U+001C-001F
IntWhitespace ==
    {"\t", "\n", "", "\f", "\r", " ", "", " ", "U+1680", "U+2000", "U+2001",
     "U+2002", "U+2003", "U+2004", "U+2005", "U+2006", "U+2007", "U+2008",
     "U+2009", "U+200A", "U+2028", "U+2029", "U+202F", "U+205F", "U+3000"}

\* The ASCII digits, by value
Digits == <<"0", "1", "2", "3", "4", "5", "6", "7", "8", "9">>

\* The decimal digits of every script (str.isdecimal), in code point
\* order: runs of ten, from the digit zero to the digit nine of a script
DecimalDigits ==
    <<"0", "1", "2", "3", "4", "5", "6", "7", "8", "9", "U+0660", "U+0661",
      "U+0662", "U+0663", "U+0664", "U+0665", "U+0666", "U+0667", "U+0668",
      "U+0669", "U+06F0", "U+06F1", "U+06F2", "U+06F3", "U+06F4", "U+06F5",
      "U+06F6", "U+06F7", "U+06F8", "U+06F9", "U+07C0", "U+07C1", "U+07C2",
      "U+07C3", "U+07C4", "U+07C5", "U+07C6", "U+07C7", "U+07C8", "U+07C9",
      "U+0966", "U+0967", "U+0968", "U+0969", "U+096A", "U+096B", "U+096C",
      "U+096D", "U+096E", "U+096F", "U+09E6", "U+09E7", "U+09E8", "U+09E9",
      "U+09EA", "U+09EB", "U+09EC", "U+09ED", "U+09EE", "U+09EF", "U+0A66",
      "U+0A67", "U+0A68", "U+0A69", "U+0A6A", "U+0A6B", "U+0A6C", "U+0A6D",
      "U+0A6E", "U+0A6F", "U+0AE6", "U+0AE7", "U+0AE8", "U+0AE9", "U+0AEA",
      "U+0AEB", "U+0AEC", "U+0AED", "U+0AEE", "U+0AEF", "U+0B66", "U+0B67",
      "U+0B68", "U+0B69", "U+0B6A", "U+0B6B", "U+0B6C", "U+0B6D", "U+0B6E",
      "U+0B6F", "U+0BE6", "U+0BE7", "U+0BE8", "U+0BE9", "U+0BEA", "U+0BEB",
      "U+0BEC", "U+0BED", "U+0BEE", "U+0BEF", "U+0C66", "U+0C67", "U+0C68",
      "U+0C69", "U+0C6A", "U+0C6B", "U+0C6C", "U+0C6D", "U+0C6E", "U+0C6F",
      "U+0CE6", "U+0CE7", "U+0CE8", "U+0CE9", "U+0CEA", "U+0CEB", "U+0CEC",
      "U+0CED", "U+0CEE", "U+0CEF", "U+0D66", "U+0D67", "U+0D68", "U+0D69",
      "U+0D6A", "U+0D6B", "U+0D6C", "U+0D6D", "U+0D6E", "U+0D6F", "U+0DE6",
      "U+0DE7", "U+0DE8", "U+0DE9", "U+0DEA", "U+0DEB", "U+0DEC", "U+0DED",
      "U+0DEE", "U+0DEF", "U+0E50", "U+0E51", "U+0E52", "U+0E53", "U+0E54",
      "U+0E55", "U+0E56", "U+0E57", "U+0E58", "U+0E59", "U+0ED0", "U+0ED1",
      "U+0ED2", "U+0ED3", "U+0ED4", "U+0ED5", "U+0ED6", "U+0ED7", "U+0ED8",
      "U+0ED9", "U+0F20", "U+0F21", "U+0F22", "U+0F23", "U+0F24", "U+0F25",
      "U+0F26", "U+0F27", "U+0F28", "U+0F29", "U+1040", "U+1041", "U+1042",
      "U+1043", "U+1044", "U+1045", "U+1046", "U+1047", "U+1048", "U+1049",
      "U+1090", "U+1091", "U+1092", "U+1093", "U+1094", "U+1095", "U+1096",
      "U+1097", "U+1098", "U+1099", "U+17E0", "U+17E1", "U+17E2", "U+17E3",
      "U+17E4", "U+17E5", "U+17E6", "U+17E7", "U+17E8", "U+17E9", "U+1810",
      "U+1811", "U+1812", "U+1813", "U+1814", "U+1815", "U+1816", "U+1817",
      "U+1818", "U+1819", "U+1946", "U+1947", "U+1948", "U+1949", "U+194A",
      "U+194B", "U+194C", "U+194D", "U+194E", "U+194F", "U+19D0", "U+19D1",
      "U+19D2", "U+19D3", "U+19D4", "U+19D5", "U+19D6", "U+19D7", "U+19D8",
      "U+19D9", "U+1A80", "U+1A81", "U+1A82", "U+1A83", "U+1A84", "U+1A85",
      "U+1A86", "U+1A87", "U+1A88", "U+1A89", "U+1A90", "U+1A91", "U+1A92",
      "U+1A93", "U+1A94", "U+1A95", "U+1A96", "U+1A97", "U+1A98", "U+1A99",
      "U+1B50", "U+1B51", "U+1B52", "U+1B53", "U+1B54", "U+1B55", "U+1B56",
      "U+1B57", "U+1B58", "U+1B59", "U+1BB0", "U+1BB1", "U+1BB2", "U+1BB3",
      "U+1BB4", "U+1BB5", "U+1BB6", "U+1BB7", "U+1BB8", "U+1BB9", "U+1C40",
      "U+1C41", "U+1C42", "U+1C43", "U+1C44", "U+1C45", "U+1C46", "U+1C47",
      "U+1C48", "U+1C49", "U+1C50", "U+1C51", "U+1C52", "U+1C53", "U+1C54",
      "U+1C55", "U+1C56", "U+1C57", "U+1C58", "U+1C59", "U+A620", "U+A621",
      "U+A622", "U+A623", "U+A624", "U+A625", "U+A626", "U+A627", "U+A628",
      "U+A629", "U+A8D0", "U+A8D1", "U+A8D2", "U+A8D3", "U+A8D4", "U+A8D5",
      "U+A8D6", "U+A8D7", "U+A8D8", "U+A8D9", "U+A900", "U+A901", "U+A902",
      "U+A903", "U+A904", "U+A905", "U+A906", "U+A907", "U+A908", "U+A909",
      "U+A9D0", "U+A9D1", "U+A9D2", "U+A9D3", "U+A9D4", "U+A9D5", "U+A9D6",
      "U+A9D7", "U+A9D8", "U+A9D9", "U+A9F0", "U+A9F1", "U+A9F2", "U+A9F3",
      "U+A9F4", "U+A9F5", "U+A9F6", "U+A9F7", "U+A9F8", "U+A9F9", "U+AA50",
      "U+AA51", "U+AA52", "U+AA53", "U+AA54", "U+AA55", "U+AA56", "U+AA57",
      "U+AA58", "U+AA59", "U+ABF0", "U+ABF1", "U+ABF2", "U+ABF3", "U+ABF4",
      "U+ABF5", "U+ABF6", "U+ABF7", "U+ABF8", "U+ABF9", "U+FF10", "U+FF11",
      "U+FF12", "U+FF13", "U+FF14", "U+FF15", "U+FF16", "U+FF17", "U+FF18",
      "U+FF19", "U+104A0", "U+104A1", "U+104A2", "U+104A3", "U+104A4",
      "U+104A5", "U+104A6", "U+104A7", "U+104A8", "U+104A9", "U+10D30",
      "U+10D31", "U+10D32", "U+10D33", "U+10D34", "U+10D35", "U+10D36",
      "U+10D37", "U+10D38", "U+10D39", "U+11066", "U+11067", "U+11068",
      "U+11069", "U+1106A", "U+1106B", "U+1106C", "U+1106D", "U+1106E",
      "U+1106F", "U+110F0", "U+110F1", "U+110F2", "U+110F3", "U+110F4",
      "U+110F5", "U+110F6", "U+110F7", "U+110F8", "U+110F9", "U+11136",
      "U+11137", "U+11138", "U+11139", "U+1113A", "U+1113B", "U+1113C",
      "U+1113D", "U+1113E", "U+1113F", "U+111D0", "U+111D1", "U+111D2",
      "U+111D3", "U+111D4", "U+111D5", "U+111D6", "U+111D7", "U+111D8",
      "U+111D9", "U+112F0", "U+112F1", "U+112F2", "U+112F3", "U+112F4",
      "U+112F5", "U+112F6", "U+112F7", "U+112F8", "U+112F9", "U+11450",
      "U+11451", "U+11452", "U+11453", "U+11454", "U+11455", "U+11456",
      "U+11457", "U+11458", "U+11459", "U+114D0", "U+114D1", "U+114D2",
      "U+114D3", "U+114D4", "U+114D5", "U+114D6", "U+114D7", "U+114D8",
      "U+114D9", "U+11650", "U+11651", "U+11652", "U+11653", "U+11654",
      "U+11655", "U+11656", "U+11657", "U+11658", "U+11659", "U+116C0",
      "U+116C1", "U+116C2", "U+116C3", "U+116C4", "U+116C5", "U+116C6",
      "U+116C7", "U+116C8", "U+116C9", "U+11730", "U+11731", "U+11732",
      "U+11733", "U+11734", "U+11735", "U+11736", "U+11737", "U+11738",
      "U+11739", "U+118E0", "U+118E1", "U+118E2", "U+118E3", "U+118E4",
      "U+118E5", "U+118E6", "U+118E7", "U+118E8", "U+118E9", "U+11950",
      "U+11951", "U+11952", "U+11953", "U+11954", "U+11955", "U+11956",
      "U+11957", "U+11958", "U+11959", "U+11C50", "U+11C51", "U+11C52",
      "U+11C53", "U+11C54", "U+11C55", "U+11C56", "U+11C57", "U+11C58",
      "U+11C59", "U+11D50", "U+11D51", "U+11D52", "U+11D53", "U+11D54",
      "U+11D55", "U+11D56", "U+11D57", "U+11D58", "U+11D59", "U+11DA0",
      "U+11DA1", "U+11DA2", "U+11DA3", "U+11DA4", "U+11DA5", "U+11DA6",
      "U+11DA7", "U+11DA8", "U+11DA9", "U+16A60", "U+16A61", "U+16A62",
      "U+16A63", "U+16A64", "U+16A65", "U+16A66", "U+16A67", "U+16A68",
      "U+16A69", "U+16AC0", "U+16AC1", "U+16AC2", "U+16AC3", "U+16AC4",
      "U+16AC5", "U+16AC6", "U+16AC7", "U+16AC8", "U+16AC9", "U+16B50",
      "U+16B51", "U+16B52", "U+16B53", "U+16B54", "U+16B55", "U+16B56",
      "U+16B57", "U+16B58", "U+16B59", "U+1D7CE", "U+1D7CF", "U+1D7D0",
      "U+1D7D1", "U+1D7D2", "U+1D7D3", "U+1D7D4", "U+1D7D5", "U+1D7D6",
      "U+1D7D7", "U+1D7D8", "U+1D7D9", "U+1D7DA", "U+1D7DB", "U+1D7DC",
      "U+1D7DD", "U+1D7DE", "U+1D7DF", "U+1D7E0", "U+1D7E1", "U+1D7E2",
      "U+1D7E3", "U+1D7E4", "U+1D7E5", "U+1D7E6", "U+1D7E7", "U+1D7E8",
      "U+1D7E9", "U+1D7EA", "U+1D7EB", "U+1D7EC", "U+1D7ED", "U+1D7EE",
      "U+1D7EF", "U+1D7F0", "U+1D7F1", "U+1D7F2", "U+1D7F3", "U+1D7F4",
      "U+1D7F5", "U+1D7F6", "U+1D7F7", "U+1D7F8", "U+1D7F9", "U+1D7FA",
      "U+1D7FB", "U+1D7FC", "U+1D7FD", "U+1D7FE", "U+1D7FF", "U+1E140",
      "U+1E141", "U+1E142", "U+1E143", "U+1E144", "U+1E145", "U+1E146",
      "U+1E147", "U+1E148", "U+1E149", "U+1E2F0", "U+1E2F1", "U+1E2F2",
      "U+1E2F3", "U+1E2F4", "U+1E2F5", "U+1E2F6", "U+1E2F7", "U+1E2F8",
      "U+1E2F9", "U+1E950", "U+1E951", "U+1E952", "U+1E953", "U+1E954",
      "U+1E955", "U+1E956", "U+1E957", "U+1E958", "U+1E959", "U+1FBF0",
      "U+1FBF1", "U+1FBF2", "U+1FBF3", "U+1FBF4", "U+1FBF5", "U+1FBF6",
      "U+1FBF7", "U+1FBF8", "U+1FBF9">>

DecimalDigitSet == {DecimalDigits[d] : d \in 1..Len(DecimalDigits)}

\* The characters str.isdigit() holds for that are no decimal digits
\* (superscripts, circled digits, ...): int() rejects them
OtherDigitSet ==
    {"²", "³", "¹", "U+1369", "U+136A", "U+136B", "U+136C", "U+136D", "U+136E",
     "U+136F", "U+1370", "U+1371", "U+19DA", "U+2070", "U+2074", "U+2075",
     "U+2076", "U+2077", "U+2078", "U+2079", "U+2080", "U+2081", "U+2082",
     "U+2083", "U+2084", "U+2085", "U+2086", "U+2087", "U+2088", "U+2089",
     "U+2460", "U+2461", "U+2462", "U+2463", "U+2464", "U+2465", "U+2466",
     "U+2467", "U+2468", "U+2474", "U+2475", "U+2476", "U+2477", "U+2478",
     "U+2479", "U+247A", "U+247B", "U+247C", "U+2488", "U+2489", "U+248A",
     "U+248B", "U+248C", "U+248D", "U+248E", "U+248F", "U+2490", "U+24EA",
     "U+24F5", "U+24F6", "U+24F7", "U+24F8", "U+24F9", "U+24FA", "U+24FB",
     "U+24FC", "U+24FD", "U+24FF", "U+2776", "U+2777", "U+2778", "U+2779",
     "U+277A", "U+277B", "U+277C", "U+277D", "U+277E", "U+2780", "U+2781",
     "U+2782", "U+2783", "U+2784", "U+2785", "U+2786", "U+2787", "U+2788",
     "U+278A", "U+278B", "U+278C", "U+278D", "U+278E", "U+278F", "U+2790",
     "U+2791", "U+2792", "U+10A40", "U+10A41", "U+10A42", "U+10A43", "U+10E60",
     "U+10E61", "U+10E62", "U+10E63", "U+10E64", "U+10E65", "U+10E66",
     "U+10E67", "U+10E68", "U+11052", "U+11053", "U+11054", "U+11055",
     "U+11056", "U+11057", "U+11058", "U+11059", "U+1105A", "U+1F100",
     "U+1F101", "U+1F102", "U+1F103", "U+1F104", "U+1F105", "U+1F106",
     "U+1F107", "U+1F108", "U+1F109", "U+1F10A"}

UpperCase == <<"A", "B", "C", "D", "E", "F", "G", "H", "I", "J", "K", "L", "M",
               "N", "O", "P", "Q", "R", "S", "T", "U", "V", "W", "X", "Y", "Z">>

LowerCase == <<"a", "b", "c", "d", "e", "f", "g", "h", "i", "j", "k", "l", "m",
               "n", "o", "p", "q", "r", "s", "t", "u", "v", "w", "x", "y", "z">>

\* s.lstrip()
RECURSIVE lstrip(_)
lstrip(s) ==
    IF s # <<>> /\ Head(s) \in Whitespace THEN lstrip(Tail(s)) ELSE s

\* s.rstrip()
RECURSIVE rstrip(_)
rstrip(s) ==
    IF s # <<>> /\ s[Len(s)] \in Whitespace
    THEN rstrip(SubSeq(s, 1, Len(s) - 1))
    ELSE s

\* s.strip()
strip(s) == rstrip(lstrip(s))

\* s.startswith(c), c one character
startswith(s, c) == s # <<>> /\ Head(s) = c

\* s.endswith(c), c one character
endswith(s, c) == s # <<>> /\ s[Len(s)] = c

\* c in s
contains(s, c) == \E k \in 1..Len(s) : s[k] = c

\* s.find(c) + 1 for a character that occurs in s: the position of the first c
first_index(s, c) == CHOOSE k \in 1..Len(s) : s[k] = c /\ \A j \in 1..(k - 1) : s[j] # c

\* s.split(c, 1) for a character that occurs in s: <<before, after>>
split_first(s, c) ==
    LET k == first_index(s, c)
    IN  <<SubSeq(s, 1, k - 1), SubSeq(s, k + 1, Len(s))>>

\* sep.join(parts), sep a string
RECURSIVE join(_, _)
join(sep, parts) ==
    IF parts = <<>> THEN <<>>
    ELSE IF Len(parts) = 1 THEN parts[1]
    ELSE parts[1] \o sep \o join(sep, Tail(parts))

\* c.lower() for one character, on the letters A-Z
lower_char(c) ==
    IF \E k \in 1..26 : UpperCase[k] = c
    THEN LowerCase[CHOOSE k \in 1..26 : UpperCase[k] = c]
    ELSE c

\* value.lower() as lines 198-200 use it: the result is only compared with
\* 'true' and 'false'.  The letters A-Z are mapped; no other character
\* lower-cases to a letter of those two words, so leaving the others as
\* they are decides both comparisons as the code does.
lower(s) == [k \in 1..Len(s) |-> lower_char(s[k])]

\* The characters str.isdigit() holds for
DigitSet == DecimalDigitSet \cup OtherDigitSet

\* s.isdigit(): not empty, and every character a digit of some script
isdigit(s) == s # <<>> /\ \A k \in 1..Len(s) : s[k] \in DigitSet

\* The value of every decimal digit: its place in its run of ten
DecimalValue ==
    [c \in DecimalDigitSet |->
        ((CHOOSE d \in 1..Len(DecimalDigits) : DecimalDigits[d] = c) - 1) % 10]

\* The value of a decimal digit
digit_value(c) == DecimalValue[c]

\* s without its characters '_'
without_underscores(s) == SelectSeq(s, LAMBDA c : c # "_")

\* s, a string of decimal digits, without its leading digits of value zero
without_leading_zeros(s) ==
    LET counting == {k \in 1..Len(s) : digit_value(s[k]) # 0}
    IN  IF counting = {} THEN <<>>
        ELSE SubSeq(s, CHOOSE k \in counting : \A j \in counting : k <= j, Len(s))

\* s.strip() as int() does it
RECURSIVE int_lstrip(_)
int_lstrip(s) ==
    IF s # <<>> /\ Head(s) \in IntWhitespace THEN int_lstrip(Tail(s)) ELSE s

RECURSIVE int_rstrip(_)
int_rstrip(s) ==
    IF s # <<>> /\ s[Len(s)] \in IntWhitespace
    THEN int_rstrip(SubSeq(s, 1, Len(s) - 1))
    ELSE s

\* The argument of int() read as [sign] digits: negative tells a leading
\* '-', body is what follows the sign
int_literal(s) ==
    LET t == int_rstrip(int_lstrip(s))
    IN  IF t # <<>> /\ Head(t) \in {"+", "-"}
        THEN [negative |-> Head(t) = "-", body |-> Tail(t)]
        ELSE [negative |-> FALSE, body |-> t]

\* sys.int_info.default_max_str_digits: the most digits int() converts
MaxStrDigits == 4300

\* Whether int(s) returns: after the optional sign come decimal digits,
\* with single '_' allowed between two digits, and no more than
\* MaxStrDigits digits, the leading zeros counted and the '_' not;
\* anything else is ValueError
int_accepts(s) ==
    LET b == int_literal(s).body
    IN  /\ b # <<>>
        /\ \A k \in 1..Len(b) : b[k] = "_" \/ b[k] \in DecimalDigitSet
        /\ b[1] # "_"
        /\ b[Len(b)] # "_"
        /\ \A k \in 1..(Len(b) - 1) : ~(b[k] = "_" /\ b[k + 1] = "_")
        /\ Len(without_underscores(b)) <= MaxStrDigits

\* The digits of int(s) that count: no '_', no leading zeros
int_digits(s) == without_leading_zeros(without_underscores(int_literal(s).body))

\* The number a string of decimal digits stands for
RECURSIVE int_of(_)
int_of(s) ==
    IF s = <<>> THEN 0
    ELSE 10 * int_of(SubSeq(s, 1, Len(s) - 1)) + digit_value(s[Len(s)])

\* 2**31 - 1, the greatest value a C int holds, digit by digit
IntMaxDigits == <<2, 1, 4, 7, 4, 8, 3, 6, 4, 7>>

\* Whether the digits d, without leading zeros, stand for at most 2**31 - 1
fits_c_int(d) ==
    \/ Len(d) < Len(IntMaxDigits)
    \/ /\ Len(d) = Len(IntMaxDigits)
       /\ \/ \A k \in 1..Len(d) : digit_value(d[k]) = IntMaxDigits[k]
          \/ \E k \in 1..Len(d) :
                 /\ digit_value(d[k]) < IntMaxDigits[k]
                 /\ \A j \in 1..(k - 1) : digit_value(d[j]) = IntMaxDigits[j]

\* str(n) for n >= 0
RECURSIVE str_of(_)
str_of(n) ==
    IF n < 10 THEN <<Digits[n + 1]>>
    ELSE str_of(n \div 10) \o <<Digits[(n % 10) + 1]>>

\* ' ' * n
RECURSIVE spaces(_)
spaces(n) == IF n <= 0 THEN <<>> ELSE <<" ">> \o spaces(n - 1)

\* What a file opened in text mode for reading hands over (universal
\* newlines): "\r\n" and a "\r" alone become "\n"
RECURSIVE universal_newlines(_)
universal_newlines(text) ==
    IF text = <<>> THEN <<>>
    ELSE IF Head(text) = "\r"
    THEN IF Len(text) >= 2 /\ text[2] = "\n"
         THEN <<"\n">> \o universal_newlines(SubSeq(text, 3, Len(text)))
         ELSE <<"\n">> \o universal_newlines(Tail(text))
    ELSE <<Head(text)>> \o universal_newlines(Tail(text))

\* The lines of a text whose newlines are "\n": the text cut after every
\* "\n"; a last line without "\n" is kept as it is
RECURSIVE cut_lines(_)
cut_lines(text) ==
    IF text = <<>> THEN <<>>
    ELSE IF contains(text, "\n")
         THEN LET k == first_index(text, "\n")
              IN  <<SubSeq(text, 1, k)>> \o cut_lines(SubSeq(text, k + 1, Len(text)))
         ELSE <<text>>

\* open(file_path, 'r', encoding='utf-8') and f.readlines(), on the text
\* the file holds
readlines(text) == cut_lines(universal_newlines(text))

\* What a file opened in text mode for writing stores for the text
\* written to it: every "\n" becomes os.linesep
RECURSIVE text_mode_write(_, _)
text_mode_write(text, sep) ==
    IF text = <<>> THEN <<>>
    ELSE (IF Head(text) = "\n" THEN sep ELSE <<Head(text)>>)
         \o text_mode_write(Tail(text), sep)

\* f.writelines(lines): the text written to the file object
RECURSIVE writelines(_)
writelines(lines) ==
    IF lines = <<>> THEN <<>> ELSE Head(lines) \o writelines(Tail(lines))

\* ------------------------------------------------------------ data model

\* ConfigEntry.__init__ followed by the assignment of inline_comment
ConfigEntry(name, value, tooltip, line_number, inline_comment) ==
    [name |-> name, value |-> value, tooltip |-> tooltip,
     line_number |-> line_number, inline_comment |-> inline_comment]

\* ConfigSection.__init__
ConfigSection(name, tooltip, line_number) ==
    [name |-> name, tooltip |-> tooltip, line_number |-> line_number,
     entries |-> <<>>]

\* ---------------------------------------------------------------- parser

\* The loop condition of parse_comments: a comment line or a blank line
is_comment_line(line) == startswith(strip(line), ";")

is_blank_line(line) == strip(line) = <<>>

\* lines[idx].strip()[1:].strip()
comment_text(line) == strip(Tail(strip(line)))

\* A scan that appends where the code inserts at the front
insert_comment_appending(comments, text) == comments \o <<text>>

\* comments.insert(0, text)
insert_comment(comments, text) == <<text>> \o comments

\* The while loop of parse_comments, from idx downwards
RECURSIVE parse_comments_scan(_, _, _)
parse_comments_scan(lines, idx, comments) ==
    IF idx >= 0 /\ (is_comment_line(lines[idx + 1]) \/ is_blank_line(lines[idx + 1]))
    THEN parse_comments_scan(lines, idx - 1,
             IF is_comment_line(lines[idx + 1])
             THEN insert_comment(comments, comment_text(lines[idx + 1]))
             ELSE comments)
    ELSE comments

\* parse_comments(lines, start_idx)
parse_comments(lines, start_idx) ==
    join(<<"\n">>, parse_comments_scan(lines, start_idx - 1, <<>>))

\* The parser's loop state: the sections built so far and current_section,
\* the position in sections of the section object it refers to (0 for None).
ParseStart == [sections |-> <<>>, current_section |-> 0]

\* A parser that takes every line that starts with '[' for a header
is_header_unterminated(line) == startswith(line, "[")

\* line.startswith('[') and line.endswith(']'), line already stripped
is_header(line) == startswith(line, "[") /\ endswith(line, "]")

\* section_name = line[1:-1]
section_name_of(line) == SubSeq(line, 2, Len(line) - 1)

\* A parser that counts lines from 1
source_line_one_based(i) == i + 1

\* line 88: the line number recorded for the section or entry found at index i
source_line(i) == i

\* A parser that keeps one section per name: a repeated header makes the
\* section of that name current again
append_section_merging(st, section) ==
    IF \E n \in 1..Len(st.sections) : st.sections[n].name = section.name
    THEN [st EXCEPT !.current_section =
              CHOOSE n \in 1..Len(st.sections) : st.sections[n].name = section.name]
    ELSE [sections |-> Append(st.sections, section),
          current_section |-> Len(st.sections) + 1]

\* sections.append(current_section); current_section refers to the new object
append_section(st, section) ==
    [sections |-> Append(st.sections, section),
     current_section |-> Len(st.sections) + 1]

\* current_section.entries.append(entry)
append_entry(st, entry) ==
    [st EXCEPT !.sections[st.current_section].entries = Append(@, entry)]

\* Lines 91-106: the entry built from a stripped line that contains '='
make_entry(lines, i, line) ==
    LET parts    == split_first(line, "=")
        name     == strip(parts[1])
        value0   == strip(parts[2])
        leading  == parse_comments(lines, i)
        has_semi == contains(value0, ";")
        vparts   == IF has_semi THEN split_first(value0, ";") ELSE <<value0, <<>>>>
        value    == IF has_semi THEN strip(vparts[1]) ELSE value0
        inline   == vparts[2]
        tooltip  == IF has_semi
                    THEN IF leading # <<>>
                         THEN leading \o <<"\n">> \o strip(inline)
                         ELSE strip(inline)
                    ELSE leading
    IN  ConfigEntry(name, value, tooltip, source_line(i), strip(inline))

\* One iteration of the for loop of parse_ini_with_comments, at index i
parse_line(st, lines, i) ==
    LET line == strip(lines[i + 1])
    IN  IF line = <<>> \/ startswith(line, ";") THEN st
        ELSE IF is_header(line)
        THEN append_section(st,
                 ConfigSection(section_name_of(line), parse_comments(lines, i),
                               source_line(i)))
        ELSE IF contains(line, "=") /\ st.current_section # 0
        THEN append_entry(st, make_entry(lines, i, line))
        ELSE st

\* The for loop over enumerate(lines), from index i to the end
RECURSIVE parse_from(_, _, _)
parse_from(st, lines, i) ==
    IF i >= Len(lines) THEN st
    ELSE parse_from(parse_line(st, lines, i), lines, i + 1)

\* parse_ini_with_comments, on the lines read from the file: the sections
parse_ini_with_comments(lines) == parse_from(ParseStart, lines, 0).sections

\* ---------------------------------------------------------------- widgets

\* The literals create_widget_for_value and save_ini compare with or produce
STR_Hotkeys == <<"H", "o", "t", "k", "e", "y", "s">>

STR_Log == <<"L", "o", "g">>

STR_uTintMaskResolution ==
    <<"u", "T", "i", "n", "t", "M", "a", "s", "k", "R", "e", "s", "o", "l", "u", "t", "i", "o", "n">>

STR_nCharset == <<"n", "C", "h", "a", "r", "s", "e", "t">>

STR_uUIDarkThemeId ==
    <<"u", "U", "I", "D", "a", "r", "k", "T", "h", "e", "m", "e", "I", "d">>

STR_true == <<"t", "r", "u", "e">>

STR_false == <<"f", "a", "l", "s", "e">>

STR_None == <<"N", "o", "n", "e">>

\* The item data of the nCharset combo box (lines 158-178)
CharsetData == {0, 1, 2, 128, 129, 134, 136, 255, 130, 177, 178, 161, 162, 163,
                222, 238, 204, 77, 186}

\* The item data of the uUIDarkThemeId combo box (lines 187-191)
ThemeData == {0, 1, 2}

\* widget.setMaximum(999999)
SpinMaximum == 999999

\* currentData() of a combo box with no current item (findData gave -1)
NoData == -1

\* A widget: its class and the part of its state save_ini reads.  items is
\* the item data of a combo box.
Widget(kind, text, checked, value, data, items) ==
    [kind |-> kind, text |-> text, checked |-> checked, value |-> value,
     data |-> data, items |-> items]

QLineEdit(text) == Widget("QLineEdit", text, FALSE, 0, NoData, {})

QCheckBox(checked) == Widget("QCheckBox", <<>>, checked, 0, NoData, {})

\* QSpinBox with minimum 0 (Qt's default) and setMaximum(999999); setValue
\* keeps the value within the range
QSpinBox(n) ==
    Widget("QSpinBox", <<>>, FALSE,
           IF n > SpinMaximum THEN SpinMaximum ELSE IF n < 0 THEN 0 ELSE n,
           NoData, {})

\* QComboBox filled with items, then setCurrentIndex(findData(n))
QComboBox(items, n) ==
    Widget("QComboBox", <<>>, FALSE, 0, IF n \in items THEN n ELSE NoData, items)

\* QComboBox filled with items, then setCurrentIndex(-1): findData found
\* no item
QComboBoxNoItem(items) == Widget("QComboBox", <<>>, FALSE, 0, NoData, items)

\* int(value) raises ValueError: no widget is returned
ValueError == Widget("ValueError", <<>>, FALSE, 0, NoData, {})

\* setValue(int(value)) raises OverflowError: no widget is returned
OverflowError == Widget("OverflowError", <<>>, FALSE, 0, NoData, {})

\* int(value) = n, for an accepted value and n >= 0: the digits that count
\* are those of n, and a '-' goes with zero only
int_is(value, n) ==
    /\ [k \in 1..Len(int_digits(value)) |->
           Digits[digit_value(int_digits(value)[k]) + 1]]
           = (IF n = 0 THEN <<>> ELSE str_of(n))
    /\ int_literal(value).negative => n = 0

\* Lines 181 and 194: widget.setCurrentIndex(widget.findData(int(value))).
\* The item data are compared with the integer, of whatever size.
combo_for_value(items, value) ==
    IF ~int_accepts(value) THEN ValueError
    ELSE IF \E n \in items : int_is(value, n)
    THEN QComboBox(items, CHOOSE n \in items : int_is(value, n))
    ELSE QComboBoxNoItem(items)

\* Lines 202-204, for a value isdigit() holds for: int(value) raises
\* ValueError on a digit that is no decimal digit, setValue raises
\* OverflowError from 2**31 on
spin_for_value(value) ==
    IF ~int_accepts(value) THEN ValueError
    ELSE IF ~fits_c_int(int_digits(value)) THEN OverflowError
    ELSE QSpinBox(int_of(int_digits(value)))

\* create_widget_for_value(value, entry_name, section_name)
create_widget_for_value(value, entry_name, section_name) ==
    IF section_name = STR_Hotkeys \/ entry_name = STR_uTintMaskResolution
       \/ section_name = STR_Log
    THEN QLineEdit(value)
    ELSE IF entry_name = STR_nCharset
    THEN combo_for_value(CharsetData, value)
    ELSE IF entry_name = STR_uUIDarkThemeId
    THEN combo_for_value(ThemeData, value)
    ELSE IF lower(value) \in {STR_true, STR_false}
    THEN QCheckBox(lower(value) = STR_true)
    ELSE IF isdigit(value)
    THEN spin_for_value(value)
    ELSE QLineEdit(value)

\* Lines 311-318 of save_ini: the text read back from a widget
widget_value(w) ==
    IF w.kind = "QCheckBox" THEN (IF w.checked THEN STR_true ELSE STR_false)
    ELSE IF w.kind = "QSpinBox" THEN str_of(w.value)
    ELSE IF w.kind = "QComboBox"
    THEN (IF w.data = NoData THEN STR_None ELSE str_of(w.data))
    ELSE w.text

\* The key of self.widgets: (section.name, entry.name)
widget_key(section, entry) == <<section.name, entry.name>>

\* The entries of all sections in the order the nested loops of refresh_ui
\* and save_ini visit them, each with its key
RECURSIVE flat_entries(_)
flat_entries(sections) ==
    IF sections = <<>> THEN <<>>
    ELSE [k \in 1..Len(Head(sections).entries) |->
             [section |-> 1, section_name |-> Head(sections).name,
              key |-> widget_key(Head(sections), Head(sections).entries[k]),
              entry |-> Head(sections).entries[k]]]
         \o [k \in 1..Len(flat_entries(Tail(sections))) |->
                [flat_entries(Tail(sections))[k] EXCEPT !.section = @ + 1]]

\* Lines 231-234: grid_layout.addWidget(widget, i, 1) and
\* self.widgets[(section.name, entry.name)] = widget.  page is the section
\* (1 for the first) whose container the widget was laid out in.
bind_widget(widgets, key, w, page) ==
    [k \in DOMAIN widgets \cup {key} |->
        IF k = key THEN [widget |-> w, page |-> page] ELSE widgets[k]]

\* The state refresh_ui builds: self.widgets, the number of tabs added to
\* tab_widget, and whether create_widget_for_value raised.
RefreshStart == [widgets |-> << >>, tabs |-> 0, raised |-> FALSE]

\* refresh_ui after tab_widget.clear() and widgets.clear(): the loops over
\* the sections and (create_section_widget) their entries, through
\* flat[k..].  A section's tab is added (line 257) when all its widgets are
\* made: an exception leaves the tabs of the sections before it, and in
\* self.widgets the widgets bound before it.
RECURSIVE refresh_from(_, _, _)
refresh_from(st, flat, k) ==
    IF k > Len(flat) THEN st
    ELSE LET e == flat[k]
             w == create_widget_for_value(e.entry.value, e.entry.name, e.section_name)
         IN  IF w \in {ValueError, OverflowError}
             THEN [st EXCEPT !.raised = TRUE, !.tabs = e.section - 1]
             ELSE refresh_from(
                      [st EXCEPT !.widgets = bind_widget(@, e.key, w, e.section)],
                      flat, k + 1)

\* refresh_ui()
refresh_ui(sections) ==
    LET st == refresh_from([RefreshStart EXCEPT !.tabs = Len(sections)],
                           flat_entries(sections), 1)
    IN  st

\* ---------------------------------------------------------------- saving

\* new_lines = self.original_lines without the copy: the edits land in
\* self.original_lines
original_lines_aliased(original, new_lines) == new_lines

\* new_lines = self.original_lines.copy(): what self.original_lines holds
\* once new_lines has been edited (the copy keeps it apart)
original_lines_after_copy(original, new_lines) == original

\* The fixed layout in front of an inline comment (line 321)
InlineLayout == <<"\t", "\t", "\t", ";", " ">>

\* A writer that forgets the inline comment
new_line_without_comment(entry, value) == entry.name \o <<"=">> \o value

\* Lines 320-323: new_line
new_line_for(entry, value) ==
    IF entry.inline_comment # <<>>
    THEN entry.name \o <<"=">> \o value \o InlineLayout \o entry.inline_comment
    ELSE entry.name \o <<"=">> \o value

\* Line 325: leading_space
leading_space(line) == Len(line) - Len(lstrip(line))

\* Line 326: the line stored at entry.line_number
rewritten_line(old_line, entry, value) ==
    spaces(leading_space(old_line)) \o new_line_for(entry, value) \o <<"\n">>

\* The nested loops of save_ini (lines 307-326) through flat[k..], on
\* new_lines.  raised is the KeyError of self.widgets[...] (line 309) or
\* the RuntimeError of reading a widget whose C++ object is gone (lines
\* 311-318).  A widget laid out in a container that refresh_ui never gave
\* to a tab (page > tabs) belongs to nothing but the frame of the call that
\* raised; alive tells whether that frame, and with it the widget, is
\* still held.
RECURSIVE save_from(_, _, _, _, _, _)
save_from(st, flat, widgets, tabs, alive, k) ==
    IF k > Len(flat) THEN st
    ELSE LET e == flat[k]
         IN  IF e.key \notin DOMAIN widgets
             THEN [st EXCEPT !.raised = TRUE]
             ELSE IF widgets[e.key].page > tabs /\ ~alive
             THEN [st EXCEPT !.raised = TRUE]
             ELSE save_from(
                     [st EXCEPT !.new_lines[e.entry.line_number + 1] =
                          rewritten_line(@, e.entry,
                                         widget_value(widgets[e.key].widget))],
                     flat, widgets, tabs, alive, k + 1)

\* Lines 305-326 of save_ini
save_lines(sections, original, widgets, tabs, alive) ==
    save_from([new_lines |-> original, raised |-> FALSE],
              flat_entries(sections), widgets, tabs, alive, 1)

\* The first n characters of a text
written_prefix(text, n) == SubSeq(text, 1, IF n < Len(text) THEN n ELSE Len(text))

\* ----------------------------------------------------------------- inputs

\* The longest file, in lines
MaxLines == 3

\* The lines the modelled files are made of
L_header == <<"[", "A", "]", "\n">>

L_comment == <<";", " ", "c", "\n">>

\* A line of one vertical tab, ended by a "\r" alone
L_blank == <<"", "\r">>

\* An entry in the layout save_ini writes
L_entry_commented == <<"k", "=", "1", "\t", "\t", "\t", ";", " ", "c", "\n">>

\* An entry behind a tab, with spaces of its own, ended by "\r\n"
L_entry_loose ==
    <<"\t", "b", " ", "=", " ", "T", "r", "u", "e", " ", ";", "c", "\r", "\n">>

L_open_header == <<"[", "A", "\n">>

L_open_header_eq == <<"[", "A", "=", "1", "\n">>

L_entry_theme ==
    <<"u", "U", "I", "D", "a", "r", "k", "T", "h", "e", "m", "e", "I", "d",
      "=", "-", "1", "\n">>

LinePool == {L_header, L_comment, L_blank, L_entry_commented, L_entry_loose,
             L_open_header, L_open_header_eq, L_entry_theme}

\* A last line that does not end in a newline
L_unterminated == <<"j", "=", "x">>

\* A first line: a comment of another text
L_comment_first == <<";", "d", "\n">>

\* The sequences of at most n lines of the pool
RECURSIVE LineSeqs(_)
LineSeqs(n) ==
    IF n <= 0 THEN {<<>>}
    ELSE LineSeqs(n - 1)
         \cup {Append(ls, l) : ls \in LineSeqs(n - 1), l \in LinePool}

\* The texts the INI file can hold when the editor starts: up to MaxLines
\* lines of the pool, or fewer followed by a last line without newline, or
\* fewer behind the other comment
Texts ==
    {writelines(ls) : ls \in LineSeqs(MaxLines)}
    \cup {writelines(ls) \o L_unterminated : ls \in LineSeqs(MaxLines - 1)}
    \cup {L_comment_first \o writelines(ls) : ls \in LineSeqs(MaxLines - 1)}

\* os.linesep, which a file opened in text mode writes for "\n".  With
\* "\r\n" the file holds other characters and readlines gives the same
\* lines.
linesep == <<"\n">>

\* What a file dialog returns: a path as its components, <<>> when the
\* dialog is cancelled
ExpectedName == "CreationKitPlatformExtended.ini"

Paths == {<<>>, <<"ck", ExpectedName>>, <<"ck", "Other.ini">>}

\* What the user can type into a line edit, set a spin box to
TextInputs == {<<"4", "2">>}

SpinInputs == {42}

\* How many characters reach the file before a write to it fails
WrittenBeforeFailure == {0, 3}

\* The write to the file does not fail
NoFailure == -1

\* ------------------------------------------------------------------ editor

VARIABLES
    sections,        \* self.sections
    original_lines,  \* self.original_lines
    widgets,         \* self.widgets, each widget with the page it is laid out in
    tabs,            \* the number of tabs of self.tab_widget
    view,            \* the current widget of self.stacked_widget
    current_file,    \* self.current_file, <<>> while the attribute is not set
    disk,            \* the text of CreationKitPlatformExtended.ini
    outcome          \* how the last handler that went past its dialog ended

vars == <<sections, original_lines, widgets, tabs, view, current_file, disk,
          outcome>>

\* ConfigEditor.__init__ (lines 143-145); the branding widget is shown
Init ==
    /\ sections = <<>>
    /\ original_lines = <<>>
    /\ widgets = << >>
    /\ tabs = 0
    /\ view = "branding"
    /\ current_file = <<>>
    /\ disk \in Texts
    /\ outcome = "started"

\* Path(filepath).name
path_name(path) == path[Len(path)]

\* verify_filename
verify_filename(path) == path_name(path) = ExpectedName

\* load_ini, the dialog cancelled (line 283)
load_ini_cancelled ==
    /\ <<>> \in Paths
    /\ UNCHANGED vars

\* load_ini, verify_filename shows its warning
load_ini_rejected ==
    /\ \E path \in Paths : path # <<>> /\ ~verify_filename(path)
    /\ UNCHANGED vars

\* load_ini of the file the dialog returned (lines 288-290).  An exception
\* of refresh_ui leaves the slot before line 262: the view stays as it was.
load_ini(path) ==
    /\ path # <<>>
    /\ verify_filename(path)
    /\ LET lines == readlines(disk)
           secs  == parse_ini_with_comments(lines)
           ui    == refresh_ui(secs)
       IN  /\ sections' = secs
           /\ original_lines' = lines
           /\ current_file' = path
           /\ widgets' = ui.widgets
           /\ tabs' = ui.tabs
           /\ view' = IF ui.raised THEN view ELSE "editor"
           /\ outcome' = IF ui.raised THEN "load_raised" ELSE "loaded"
    /\ UNCHANGED disk

\* The widgets the user can reach: those bound in self.widgets whose page
\* is a tab of tab_widget, while the editor view is shown
reachable_keys ==
    IF view # "editor" THEN {}
    ELSE {k \in DOMAIN widgets : widgets[k].page <= tabs}

\* The states the user can put a widget in
widget_inputs(w) ==
    IF w.kind = "QCheckBox" THEN {QCheckBox(TRUE), QCheckBox(FALSE)}
    ELSE IF w.kind = "QSpinBox" THEN {QSpinBox(n) : n \in SpinInputs}
    ELSE IF w.kind = "QComboBox" THEN {[w EXCEPT !.data = d] : d \in w.items}
    ELSE {QLineEdit(t) : t \in TextInputs}

\* The user changes the value shown by one widget
edit_widget(key, w) ==
    /\ key \in reachable_keys
    /\ w \in widget_inputs(widgets[key].widget)
    /\ w # widgets[key].widget
    /\ widgets' = [widgets EXCEPT ![key].widget = w]
    /\ outcome' = "edited"
    /\ UNCHANGED <<sections, original_lines, tabs, view, current_file, disk>>

\* save_ini without current_file, the dialog cancelled (line 298)
save_ini_cancelled ==
    /\ current_file = <<>>
    /\ <<>> \in Paths
    /\ UNCHANGED vars

\* save_ini without current_file, verify_filename shows its warning (line 301)
save_ini_rejected ==
    /\ current_file = <<>>
    /\ \E path \in Paths : path # <<>> /\ ~verify_filename(path)
    /\ UNCHANGED vars

\* save_ini from line 303 on.  path is the dialog's answer when
\* current_file is not set; alive, see save_from, is a choice only when a
\* widget lies in a container without tab; opened tells whether open()
\* succeeds, which empties the file; failed_after is NoFailure, or the
\* number of characters written when writelines() or the closing of the
\* file fails.
save_ini(path, alive) ==
    /\ current_file = <<>> => (path # <<>> /\ verify_filename(path))
    /\ current_file # <<>> => path = current_file
    /\ ~alive => \E k \in DOMAIN widgets : widgets[k].page > tabs
    /\ LET st   == save_lines(sections, original_lines, widgets, tabs, alive)
           text == text_mode_write(writelines(st.new_lines), linesep)
       IN  /\ current_file' = path
           /\ original_lines' = original_lines_after_copy(original_lines, st.new_lines)
           /\ IF st.raised
              THEN disk' = disk /\ outcome' = "save_raised"
              ELSE \E opened \in BOOLEAN,
                      failed_after \in WrittenBeforeFailure \cup {NoFailure} :
                       /\ ~opened => failed_after = NoFailure
                       /\ disk' = IF ~opened THEN disk
                                  ELSE IF failed_after = NoFailure THEN text
                                  ELSE written_prefix(text, failed_after)
                       /\ outcome' = IF opened /\ failed_after = NoFailure
                                     THEN "saved" ELSE "save_error"
    /\ UNCHANGED <<sections, widgets, tabs, view>>

Next ==
    \/ load_ini_cancelled
    \/ load_ini_rejected
    \/ \E path \in Paths : load_ini(path)
    \/ \E key \in DOMAIN widgets :
           \E w \in widget_inputs(widgets[key].widget) : edit_widget(key, w)
    \/ save_ini_cancelled
    \/ save_ini_rejected
    \/ \E path \in Paths, alive \in BOOLEAN : save_ini(path, alive)

Spec == Init /\ [][Next]_vars

\* ------------------------------------------------------------ properties

\* The state right after a successful save_ini: disk holds what it wrote
Saved == outcome = "saved"

\* The lines of the file as written
WrittenLines == readlines(disk)

\* The entries of the model, in model order
Entries == flat_entries(sections)

\* The widgets as refresh_ui left them, before the user touched any
FreshWidgets == refresh_ui(sections).widgets

\* The keys whose widget the user has changed
EditedKeys == {k \in DOMAIN widgets : widgets[k] # FreshWidgets[k]}

\* The value save_ini writes for the entry Entries[n]
NewValue(n) == widget_value(widgets[Entries[n].key].widget)

\* The line an entry was parsed from, and the line written in its place
OldLine(n) == original_lines[Entries[n].entry.line_number + 1]

NewLine(n) == WrittenLines[Entries[n].entry.line_number + 1]

\* The leading whitespace of a line
Indentation(line) == SubSeq(line, 1, Len(line) - Len(lstrip(line)))

\* The line classes of the file format, on a physical line
BlankOrComment(line) == strip(line) = <<>> \/ Head(strip(line)) = ";"

HeaderLine(line) ==
    /\ ~BlankOrComment(line)
    /\ Head(strip(line)) = "["
    /\ strip(line)[Len(strip(line))] = "]"

OpenHeaderLine(line) ==
    /\ ~BlankOrComment(line)
    /\ Head(strip(line)) = "["
    /\ strip(line)[Len(strip(line))] # "]"

KeyValueLine(line) ==
    /\ ~BlankOrComment(line)
    /\ ~HeaderLine(line)
    /\ \E k \in 1..Len(line) : line[k] = "="

\* The 0-based indices of the header lines above index i
HeadersAbove(lines, i) == {h \in 0..(i - 1) : HeaderLine(lines[h + 1])}

\* The greatest element of a non-empty set of numbers
Greatest(S) == CHOOSE m \in S : \A x \in S : x <= m

\* out is line with one occurrence of the token old replaced by new and
\* nothing else changed
OnlyTokenDiffers(line, out, old, new) ==
    \E k \in 0..Len(line) :
        /\ k + Len(old) <= Len(line)
        /\ k + Len(new) <= Len(out)
        /\ SubSeq(line, 1, k) = SubSeq(out, 1, k)
        /\ SubSeq(line, k + 1, k + Len(old)) = old
        /\ SubSeq(out, k + 1, k + Len(new)) = new
        /\ SubSeq(line, k + Len(old) + 1, Len(line))
               = SubSeq(out, k + Len(new) + 1, Len(out))

\* C1: Round-trip identity.  A save made while every entry's widget still
\* yields the value parsed for it writes back exactly the lines that were
\* read.
C1_RoundTripIdentity ==
    (Saved /\ \A n \in 1..Len(Entries) : NewValue(n) = Entries[n].entry.value)
        => WrittenLines = original_lines

\* C2: Single-field update locality.  A save made with exactly one
\* (section name, key name) pair edited to a new value writes as many lines
\* as were read, and exactly one of them differs from the line read at the
\* same index.
C2_SingleFieldLocality ==
    (Saved /\ Cardinality(EditedKeys) = 1
           /\ \A k \in EditedKeys :
                  widget_value(widgets[k].widget)
                      # widget_value(FreshWidgets[k].widget))
        => /\ Len(WrittenLines) = Len(original_lines)
           /\ Cardinality({i \in 1..Len(original_lines) :
                               WrittenLines[i] # original_lines[i]}) = 1

\* The indices of the block of blank and comment lines right above index i
LeadingBlock(lines, i) ==
    {j \in 0..(i - 1) : \A m \in j..(i - 1) : BlankOrComment(lines[m + 1])}

\* The lines above the entry Entries[n] that form its leading comment block
\* are written back as they were read
LeadingCommentsKept(n) ==
    \A j \in LeadingBlock(original_lines, Entries[n].entry.line_number) :
        WrittenLines[j + 1] = original_lines[j + 1]

\* The entry Entries[n] has an inline comment and the user changed its value
CommentedAndChanged(n) ==
    /\ Entries[n].entry.inline_comment # <<>>
    /\ Entries[n].key \in EditedKeys
    /\ NewValue(n) # Entries[n].entry.value

\* C3 as stated: Comment preservation.  When the value of an entry with an
\* inline comment is changed and saved, its leading comment lines are
\* written back unchanged and its own line differs from the line read only
\* in the value token.
C3_OnlyValueTokenChanges ==
    Saved =>
        \A n \in 1..Len(Entries) :
            CommentedAndChanged(n) =>
                /\ LeadingCommentsKept(n)
                /\ OnlyTokenDiffers(OldLine(n), NewLine(n),
                                    Entries[n].entry.value, NewValue(n))

\* The line read for Entries[n] is already laid out the way save_ini lays
\* a commented entry out, up to its indentation
InFixedLayout(n) ==
    lstrip(OldLine(n)) =
        Entries[n].entry.name \o <<"=">> \o Entries[n].entry.value
        \o <<"\t", "\t", "\t", ";", " ">> \o Entries[n].entry.inline_comment
        \o <<"\n">>

\* C3 amended: when the value of an entry with an inline comment is changed
\* and saved, its leading comment lines are written back unchanged, and its
\* own line becomes, after its indentation, name=value followed by three
\* tabs, "; ", the trimmed text of the inline comment and a newline: the
\* text of the comment is kept, its spacing is not.  Apart from the
\* indentation, only the value token differs when the line read already
\* had that layout.
C3_CommentTextKept ==
    Saved =>
        \A n \in 1..Len(Entries) :
            CommentedAndChanged(n) =>
                /\ LeadingCommentsKept(n)
                /\ lstrip(NewLine(n)) =
                       Entries[n].entry.name \o <<"=">> \o NewValue(n)
                       \o <<"\t", "\t", "\t", ";", " ">>
                       \o Entries[n].entry.inline_comment \o <<"\n">>
                /\ InFixedLayout(n) =>
                       OnlyTokenDiffers(lstrip(OldLine(n)), lstrip(NewLine(n)),
                                        Entries[n].entry.value, NewValue(n))

\* C3 witness: a saved entry with a leading comment line and an inline
\* comment, read in a looser layout, whose value the user changed
C3_Witness ==
    /\ Saved
    /\ \E n \in 1..Len(Entries) :
           /\ CommentedAndChanged(n)
           /\ ~InFixedLayout(n)
           /\ \E j \in LeadingBlock(original_lines, Entries[n].entry.line_number) :
                  ~(strip(original_lines[j + 1]) = <<>>)

\* C4: Indentation preservation.  The line written for an entry whose value
\* the user changed begins with the same leading whitespace characters as
\* the line read.
C4_IndentationPreserved ==
    Saved =>
        \A n \in 1..Len(Entries) :
            (Entries[n].key \in EditedKeys /\ NewValue(n) # Entries[n].entry.value)
                => Indentation(NewLine(n)) = Indentation(OldLine(n))

\* The line numbers of the model in model order: each section's, then its
\* entries'
RECURSIVE LineNumbers(_)
LineNumbers(secs) ==
    IF secs = <<>> THEN <<>>
    ELSE <<Head(secs).line_number>>
         \o [k \in 1..Len(Head(secs).entries) |-> Head(secs).entries[k].line_number]
         \o LineNumbers(Tail(secs))

\* C5: Model/raw pairing.  In every state every section and entry of the
\* model has a line_number that is an index into original_lines, the line
\* there is the header or key=value line with its name, and the line
\* numbers increase strictly in model order.
C5_ModelPairedWithLines ==
    /\ \A s \in 1..Len(sections) :
           /\ sections[s].line_number \in 0..(Len(original_lines) - 1)
           /\ HeaderLine(original_lines[sections[s].line_number + 1])
           /\ strip(original_lines[sections[s].line_number + 1])
                  = <<"[">> \o sections[s].name \o <<"]">>
           /\ \A e \in 1..Len(sections[s].entries) :
                  LET ln == sections[s].entries[e].line_number
                  IN  /\ ln \in 0..(Len(original_lines) - 1)
                      /\ KeyValueLine(original_lines[ln + 1])
                      /\ \E k \in 1..Len(strip(original_lines[ln + 1])) :
                             /\ strip(original_lines[ln + 1])[k] = "="
                             /\ strip(SubSeq(strip(original_lines[ln + 1]), 1, k - 1))
                                    = sections[s].entries[e].name
    /\ \A a, b \in 1..Len(LineNumbers(sections)) :
           a < b => LineNumbers(sections)[a] < LineNumbers(sections)[b]

\* C5 witness: after a load and a save the model holds two sections and an
\* entry
C5_Witness ==
    /\ Saved
    /\ Len(sections) = 2
    /\ Len(Entries) >= 1

\* C6: save_ini mutates neither the raw lines nor the model.  A step of
\* save_ini leaves original_lines and sections as they were, and what a
\* successful save writes is the rendering of that pair under the widgets'
\* values at that save, whatever was saved before.
C6_SaveLeavesModelAlone ==
    [][outcome' \in {"saved", "save_error", "save_raised"} =>
          /\ original_lines' = original_lines
          /\ sections' = sections
          /\ outcome' = "saved" =>
                 readlines(disk') =
                     save_lines(sections, original_lines,
                                widgets, tabs, TRUE).new_lines]_vars

\* C6 witness: a save that wrote lines different from the lines held, which
\* are still the lines the file had when it was loaded
C6_Witness ==
    /\ Saved
    /\ EditedKeys # {}
    /\ WrittenLines # original_lines
    /\ sections # <<>>

\* C7: Entry ownership.  The sections are the header lines, one section per
\* header line in source order; the entries of a section are the key=value
\* lines between its header and the next header, in source order; a
\* key=value line above every header is no entry of any section.
C7_EntriesFollowNearestHeader ==
    LET headers == {h \in 0..(Len(original_lines) - 1) :
                        HeaderLine(original_lines[h + 1])}
    IN  /\ Len(sections) = Cardinality(headers)
        /\ {sections[s].line_number : s \in 1..Len(sections)} = headers
        /\ \A s \in 1..Len(sections) :
               {sections[s].entries[e].line_number :
                    e \in 1..Len(sections[s].entries)}
               = {i \in 0..(Len(original_lines) - 1) :
                      /\ KeyValueLine(original_lines[i + 1])
                      /\ HeadersAbove(original_lines, i) # {}
                      /\ Greatest(HeadersAbove(original_lines, i))
                             = sections[s].line_number}
        /\ \A s \in 1..Len(sections) :
               Len(sections[s].entries)
                   = Cardinality({sections[s].entries[e].line_number :
                                      e \in 1..Len(sections[s].entries)})

\* C7 witness: two headers of the same name give two sections, and the
\* key=value line below the second is the one entry of the second
C7_Witness ==
    /\ Len(sections) = 2
    /\ sections[1].name = sections[2].name
    /\ sections[1].entries = <<>>
    /\ Len(sections[2].entries) = 1
    /\ sections[2].entries[1].line_number > sections[2].line_number

\* The section, by position, that owns an entry parsed from line index i
\* (0 when none does)
OwnerOf(i) ==
    IF \E s \in 1..Len(sections) :
           \E e \in 1..Len(sections[s].entries) : sections[s].entries[e].line_number = i
    THEN CHOOSE s \in 1..Len(sections) :
           \E e \in 1..Len(sections[s].entries) : sections[s].entries[e].line_number = i
    ELSE 0

\* C8 as stated: an unterminated header is ignored.  A line whose trimmed
\* text starts with '[' and does not end with ']' gives no section and no
\* entry.
C8_OpenHeaderIgnored ==
    \A i \in 0..(Len(original_lines) - 1) :
        OpenHeaderLine(original_lines[i + 1]) =>
            /\ \A s \in 1..Len(sections) : sections[s].line_number # i
            /\ OwnerOf(i) = 0

\* C8 amended: a line whose trimmed text starts with '[' and does not end
\* with ']' gives no section and leaves the current section as it was: the
\* key=value lines below it belong to the section of the nearest
\* terminated header above them.  It gives no entry either, unless it
\* contains '=' and a section is active: then it is parsed as an entry of
\* that section like any other key=value line.
C8_OpenHeaderIsNoHeader ==
    \A i \in 0..(Len(original_lines) - 1) :
        OpenHeaderLine(original_lines[i + 1]) =>
            /\ \A s \in 1..Len(sections) : sections[s].line_number # i
            /\ (OwnerOf(i) # 0) <=>
                   /\ \E k \in 1..Len(original_lines[i + 1]) :
                          original_lines[i + 1][k] = "="
                   /\ HeadersAbove(original_lines, i) # {}
            /\ \A j \in (i + 1)..(Len(original_lines) - 1) :
                   (KeyValueLine(original_lines[j + 1])
                        /\ HeadersAbove(original_lines, j) # {}
                        /\ Greatest(HeadersAbove(original_lines, j)) < i)
                       => /\ OwnerOf(j) # 0
                          /\ sections[OwnerOf(j)].line_number
                                 = Greatest(HeadersAbove(original_lines, j))

\* C8 witness: an unterminated header without '=' below a header, with an
\* entry line below it
C8_Witness ==
    \E i \in 0..(Len(original_lines) - 1) :
        /\ OpenHeaderLine(original_lines[i + 1])
        /\ ~(\E k \in 1..Len(original_lines[i + 1]) : original_lines[i + 1][k] = "=")
        /\ HeadersAbove(original_lines, i) # {}
        /\ OwnerOf(i) = 0
        /\ i + 1 < Len(original_lines)
        /\ OwnerOf(i + 1) = 1

\* The texts of the comment lines among the indices from..(to - 1), top to
\* bottom, newline-joined
RECURSIVE CommentTexts(_, _, _)
CommentTexts(lines, from, to) ==
    IF from >= to THEN <<>>
    ELSE LET rest == CommentTexts(lines, from + 1, to)
             line == strip(lines[from + 1])
             more == \E m \in (from + 1)..(to - 1) :
                         ~(strip(lines[m + 1]) = <<>>)
         IN  IF line = <<>> THEN rest
             ELSE strip(Tail(line)) \o (IF more THEN <<"\n">> ELSE <<>>) \o rest

\* C10: Leading-comment extraction.  For every index i of the lines held,
\* parse_comments gives the texts of the comment lines of the maximal block
\* of blank or comment lines that ends right above i, top to bottom and
\* newline-joined; and that is the tooltip of a section whose header is
\* line i.
C10_LeadingCommentBlock ==
    /\ \A i \in 0..Len(original_lines) :
           LET block == LeadingBlock(original_lines, i)
               start == IF block = {} THEN i
                        ELSE CHOOSE j \in block : \A m \in block : j <= m
           IN  parse_comments(original_lines, i)
                   = CommentTexts(original_lines, start, i)
    /\ \A s \in 1..Len(sections) :
           LET i     == sections[s].line_number
               block == LeadingBlock(original_lines, i)
               start == IF block = {} THEN i
                        ELSE CHOOSE j \in block : \A m \in block : j <= m
           IN  sections[s].tooltip = CommentTexts(original_lines, start, i)

\* C10 witness: a section whose header is the third line, under a comment
\* line and a blank line, has the text of the comment line as its tooltip
C10_Witness ==
    /\ current_file # <<>>
    /\ \E s \in 1..Len(sections) :
           /\ sections[s].line_number = 2
           /\ sections[s].tooltip # <<>>
           /\ strip(original_lines[1]) # <<>>
           /\ strip(original_lines[2]) = <<>>

====
